---- MODULE Spec2Model ----
(***************************************************************************)
(* Model of the inpatient-record extraction pipeline:                      *)
(*   src/src/pdf.py     DocumentParser.process_document / process_batch /  *)
(*                      parse_document / get_text  (batching + OCR mapping)*)
(*   src/src/agents.py  DocumentParser.generate_content / __call__         *)
(*   src/submission.py  main                                               *)
(*                                                                         *)
(* Strings are sequences of characters.  PDF pages are identified by their *)
(* 0-based index in the input file; a page record carries that index in    *)
(* the field src so that the order of the assembled document can be        *)
(* stated (the Page schema itself has only blocks).                        *)
(***************************************************************************)
EXTENDS Integers, Sequences, FiniteSets, TLC

VARIABLES
    pc,            \* position of the running entry point
    pdf_pages,     \* number of pages of the input PDF file
    ceiling,       \* self.MAX_PAGES_PER_REQUEST
    total_pages,   \* local of process_document
    start_page,    \* loop variable of process_document
    windows,       \* history: the (start_page, end_page) passed to process_batch
    ocr_log,       \* history: outcome of each process_batch call
    parsed_pages,  \* local list of process_document
    result,        \* what process_document gave its caller
    document,      \* input of parse_document (pure-function specification)
    parse_result,  \* outcome of parse_document (pure-function specification)
    response,      \* GenerateContentResponse received by generate_content
    llm_calls,     \* history: tool-config mode of every model.generate_content call
    parsed_info,   \* outcome of the extractor call in main
    file,          \* state of the file at output_file_path
    error          \* exception that left main, or "none"

vars == <<pc, pdf_pages, ceiling, total_pages, start_page, windows, ocr_log,
          parsed_pages, result, document, parse_result, response, llm_calls,
          parsed_info, file, error>>

pdfVars == <<pdf_pages, ceiling, total_pages, start_page, windows, ocr_log,
             parsed_pages, result>>
parseVars == <<document, parse_result>>
mainVars == <<response, llm_calls, parsed_info, file, error>>

----------------------------------------------------------------------------
(* Bounds                                                                  *)
MaxPages == 32
MaxCeiling == 4
MaxSplitPages == 8
MaxTextLen == 2
MaxBlocks == 2
MaxCandidates == 2
MaxParts == 2
MaxEvents == 2

(* self.MAX_PAGES_PER_REQUEST = 15                                         *)
MAX_PAGES_PER_REQUEST == 15

Min(a, b) == IF a < b THEN a ELSE b
Max(a, b) == IF a > b THEN a ELSE b

NoValue == <<>>
Returned(v) == [kind |-> "returned", value |-> v, exc |-> "none"]
Raised(e) == [kind |-> "raised", value |-> NoValue, exc |-> e]
NotFinished == [kind |-> "none", value |-> NoValue, exc |-> "none"]

----------------------------------------------------------------------------
(* src/src/pdf.py : get_text, parse_document                               *)

(* The texts the backend returns: every position holds a different         *)
(* character, so that two different slices of a text never coincide.       *)
Alphabet == <<"a", "b", "c", "d", "e", "f">>
TextOfLen(n) == [k \in 1..n |-> Alphabet[k]]

(* Python's s[i:j] for a sequence s and integers i, j: a negative index    *)
(* counts from the end, and both indexes are clamped to [0, len(s)].       *)
PyIndex(k, n) == IF k < 0 THEN Max(k + n, 0) ELSE Min(k, n)
PySlice(s, i, j) == SubSeq(s, PyIndex(i, Len(s)) + 1, PyIndex(j, Len(s)))

(* A mutation of get_text: slices one character too far.                   *)
get_text_off_by_one(doc, text_anchor) ==
    IF Len(text_anchor.text_segments) = 0
    THEN Raised("IndexError")
    ELSE Returned(PySlice(doc.text,
                          text_anchor.text_segments[1].start_index,
                          text_anchor.text_segments[1].end_index + 1))

(* get_text: text_segments[0] raises IndexError on an anchor without       *)
(* segments; otherwise document.text[start_index:end_index].               *)
get_text(doc, text_anchor) ==
    IF Len(text_anchor.text_segments) = 0
    THEN Raised("IndexError")
    ELSE Returned(PySlice(doc.text,
                          text_anchor.text_segments[1].start_index,
                          text_anchor.text_segments[1].end_index))

(* Block(vertices=vertices, text=text) for one backend block.              *)
parse_block(doc, block) ==
    [vertices |-> block.vertices,
     text |-> get_text(doc, [text_segments |-> block.text_segments]).value]

block_raises(doc, block) ==
    get_text(doc, [text_segments |-> block.text_segments]).kind = "raised"

parse_page(doc, page) ==
    [src |-> page.src,
     blocks |-> [k \in 1..Len(page.blocks) |-> parse_block(doc, page.blocks[k])]]

(* parse_document: one Page per backend page, one Block per backend block, *)
(* in backend order; an exception of get_text leaves the function.         *)
parse_document(doc) ==
    IF \E p \in 1..Len(doc.pages) : \E k \in 1..Len(doc.pages[p].blocks) :
           block_raises(doc, doc.pages[p].blocks[k])
    THEN Raised("IndexError")
    ELSE Returned([p \in 1..Len(doc.pages) |-> parse_page(doc, doc.pages[p])])

----------------------------------------------------------------------------
(* The OCR backend (black box): for the sub-document holding the pages     *)
(* batch it returns a document-wide text and one page per submitted page,  *)
(* in order, each with blocks anchored into the text.                      *)

Segment(s, e) == [start_index |-> s, end_index |-> e]

PipelineText == TextOfLen(2)
PipelineAnchors == {<<Segment(0, 1)>>, <<Segment(1, 2)>>, <<Segment(0, 5)>>, <<>>}

BackendDocument(batch, text, segs) ==
    [text |-> text,
     pages |-> [k \in 1..Len(batch) |->
                  [src |-> batch[k],
                   blocks |-> <<[vertices |-> "quad", text_segments |-> segs]>>]]]

BackendDocuments(batch) ==
    {BackendDocument(batch, PipelineText, segs) : segs \in PipelineAnchors}

----------------------------------------------------------------------------
(* src/src/pdf.py : process_document, process_batch                        *)

(* range(0, total_pages, step) yields start while start < total_pages      *)
range_has_next_inclusive(start, stop) == start <= stop
range_has_next(start, stop) == start < stop

(* end_page = min(start_page + self.MAX_PAGES_PER_REQUEST, total_pages)    *)
end_page_unclamped(start, step, total) == start + step
end_page(start, step, total) == Min(start + step, total)

(* pdf_writer.add_page(pdf_reader.pages[i]) for i in range(start, end)     *)
batch_pages(start, end) == [k \in 1..Max(end - start, 0) |-> start + k - 1]

(* parsed_pages.extend(batch_pages)                                        *)
extend_front(list, items) == items \o list
extend(list, items) == list \o items

(* total_pages = len(pdf_reader.pages); parsed_pages = []                  *)
OpenPdf ==
    /\ pc = "pd_open"
    /\ total_pages' = pdf_pages
    /\ parsed_pages' = <<>>
    /\ start_page' = 0
    /\ pc' = "pd_loop"
    /\ UNCHANGED <<pdf_pages, ceiling, windows, ocr_log, result>>
    /\ UNCHANGED <<parseVars, mainVars>>

(* the loop has another start_page: end_page is computed and process_batch *)
(* is awaited for the window                                               *)
CallProcessBatch ==
    /\ pc = "pd_loop"
    /\ range_has_next(start_page, total_pages)
    /\ windows' = Append(windows, <<start_page, end_page(start_page, ceiling, total_pages)>>)
    /\ pc' = "pb_await"
    /\ UNCHANGED <<pdf_pages, ceiling, total_pages, start_page, ocr_log,
                   parsed_pages, result>>
    /\ UNCHANGED <<parseVars, mainVars>>

CurrentBatch == batch_pages(windows[Len(windows)][1], windows[Len(windows)][2])

(* the backend answered and parse_document returned the pages: they are    *)
(* appended and the loop advances                                          *)
process_batch_returns(doc) ==
    /\ parse_document(doc).kind = "returned"
    /\ parsed_pages' = extend(parsed_pages, parse_document(doc).value)
    /\ ocr_log' = Append(ocr_log, "ok")
    /\ start_page' = start_page + ceiling
    /\ pc' = "pd_loop"
    /\ UNCHANGED result

(* A mutation: the failure of a window is swallowed and the loop goes on.  *)
process_batch_raises_swallowed(exc) ==
    /\ ocr_log' = Append(ocr_log, exc)
    /\ start_page' = start_page + ceiling
    /\ pc' = "pd_loop"
    /\ UNCHANGED <<parsed_pages, result>>

(* an exception inside process_batch is caught nowhere: it leaves          *)
(* process_document, whose locals are dropped                              *)
process_batch_raises(exc) ==
    /\ ocr_log' = Append(ocr_log, exc)
    /\ result' = Raised(exc)
    /\ pc' = "pd_done"
    /\ UNCHANGED <<parsed_pages, start_page>>

ProcessBatchOk ==
    /\ pc = "pb_await"
    /\ \E doc \in BackendDocuments(CurrentBatch) : process_batch_returns(doc)
    /\ UNCHANGED <<pdf_pages, ceiling, total_pages, windows>>
    /\ UNCHANGED <<parseVars, mainVars>>

(* parse_document raised on the backend's document                         *)
ProcessBatchMalformed ==
    /\ pc = "pb_await"
    /\ \E doc \in BackendDocuments(CurrentBatch) :
          /\ parse_document(doc).kind = "raised"
          /\ process_batch_raises(parse_document(doc).exc)
    /\ UNCHANGED <<pdf_pages, ceiling, total_pages, windows>>
    /\ UNCHANGED <<parseVars, mainVars>>

(* self.client.process_document raised (service or network error)          *)
ProcessBatchUnavailable ==
    /\ pc = "pb_await"
    /\ process_batch_raises("BackendError")
    /\ UNCHANGED <<pdf_pages, ceiling, total_pages, windows>>
    /\ UNCHANGED <<parseVars, mainVars>>

(* the range is exhausted: return ParsedDocument(pages=parsed_pages)       *)
ReturnParsedDocument ==
    /\ pc = "pd_loop"
    /\ ~range_has_next(start_page, total_pages)
    /\ result' = Returned([pages |-> parsed_pages])
    /\ pc' = "pd_done"
    /\ UNCHANGED <<pdf_pages, ceiling, total_pages, start_page, windows,
                   ocr_log, parsed_pages>>
    /\ UNCHANGED <<parseVars, mainVars>>

NoDocument == [text |-> <<>>, pages |-> <<>>]
NoResponse == [received |-> FALSE, candidates |-> <<>>]

IdleParse == document = NoDocument /\ parse_result = NotFinished
IdleMain ==
    /\ response = NoResponse
    /\ llm_calls = <<>>
    /\ parsed_info = NotFinished
    /\ file = "absent"
    /\ error = "none"
IdlePdf ==
    /\ pdf_pages = 0
    /\ ceiling = MAX_PAGES_PER_REQUEST
    /\ total_pages = 0
    /\ start_page = 0
    /\ windows = <<>>
    /\ ocr_log = <<>>
    /\ parsed_pages = <<>>
    /\ result = NotFinished

(* DocumentParser() followed by process_document(file_path)                *)
Init ==
    /\ pc = "pd_open"
    /\ pdf_pages \in 0..MaxPages
    /\ ceiling = MAX_PAGES_PER_REQUEST
    /\ total_pages = 0
    /\ start_page = 0
    /\ windows = <<>>
    /\ ocr_log = <<>>
    /\ parsed_pages = <<>>
    /\ result = NotFinished
    /\ IdleParse
    /\ IdleMain

Next ==
    \/ OpenPdf
    \/ CallProcessBatch
    \/ ProcessBatchOk
    \/ ProcessBatchMalformed
    \/ ProcessBatchUnavailable
    \/ ReturnParsedDocument

Spec == Init /\ [][Next]_vars

(* The batching loop for any positive page ceiling: the attribute          *)
(* MAX_PAGES_PER_REQUEST is the only place the ceiling enters the loop.    *)
SplitInit ==
    /\ pc = "pd_open"
    /\ \/ ceiling = MAX_PAGES_PER_REQUEST /\ pdf_pages \in 0..MaxPages
       \/ ceiling \in 1..MaxCeiling /\ pdf_pages \in 0..MaxSplitPages
    /\ total_pages = 0
    /\ start_page = 0
    /\ windows = <<>>
    /\ ocr_log = <<>>
    /\ parsed_pages = <<>>
    /\ result = NotFinished
    /\ IdleParse
    /\ IdleMain

SplitSpec == SplitInit /\ [][Next]_vars

----------------------------------------------------------------------------
(* parse_document as a pure function: the backend's document is drawn from *)
(* a bounded set of texts and anchored blocks.                             *)

Offsets == (0 - 1)..(MaxTextLen + 1)
SegmentLists == {<<>>} \cup {<<Segment(s, e)>> : s \in Offsets, e \in Offsets}
RawBlock(segs) == [vertices |-> "quad", text_segments |-> segs]
RawBlockLists(n) == [1..n -> {RawBlock(sg) : sg \in SegmentLists}]
ParseInput(n, blocks) ==
    [text |-> TextOfLen(n), pages |-> <<[src |-> 0, blocks |-> blocks]>>]

ParseInit ==
    /\ pc = "parse_start"
    /\ \E n \in 0..MaxTextLen, nb \in 1..MaxBlocks :
          \E blocks \in RawBlockLists(nb) : document = ParseInput(n, blocks)
    /\ parse_result = NotFinished
    /\ IdlePdf
    /\ IdleMain

(* pages = self.parse_document(result.document)                            *)
ParseDocument ==
    /\ pc = "parse_start"
    /\ parse_result' = parse_document(document)
    /\ pc' = "parsed"
    /\ UNCHANGED <<document, pdfVars, mainVars>>

ParseNext == ParseDocument

ParseSpec == ParseInit /\ [][ParseNext]_vars

----------------------------------------------------------------------------
(* src/src/agents.py : DocumentParser.generate_content, __call__           *)

(* The generative backend (black box).  A part holds either text or a      *)
(* function call; a function call may or may not carry args, and args is   *)
(* a dictionary.  Only the first part of the first candidate is read, so   *)
(* the further candidates and parts are text parts.                        *)
EventRecords == {"e1", "e2"}
EventLists == UNION {[1..n -> EventRecords] : n \in 0..MaxEvents}
EmptyDict == [k \in {} |-> <<>>]
ArgDicts ==
    {EmptyDict} \cup {[k \in {"events"} |-> l] : l \in EventLists}
        \cup {[k \in {"other"} |-> <<>>]}

TextPart ==
    [kind |-> "text",
     function_call |-> [name |-> "", has_args |-> FALSE, args |-> EmptyDict]]
FunctionCallParts ==
    {[kind |-> "function_call",
      function_call |-> [name |-> "add_to_database", has_args |-> TRUE, args |-> a]] :
        a \in ArgDicts}
    \cup {[kind |-> "function_call",
           function_call |-> [name |-> "add_to_database", has_args |-> FALSE,
                              args |-> EmptyDict]]}
Parts == {TextPart} \cup FunctionCallParts

Candidate(first, n) == [parts |-> [k \in 1..n |-> IF k = 1 THEN first ELSE TextPart]]
FirstCandidates ==
    {[parts |-> <<>>]} \cup {Candidate(p, n) : p \in Parts, n \in 1..MaxParts}
Responses ==
    {[received |-> TRUE, candidates |-> <<>>]}
    \cup {[received |-> TRUE,
           candidates |-> [k \in 1..n |-> IF k = 1 THEN c ELSE Candidate(TextPart, 1)]] :
            c \in FirstCandidates, n \in 1..MaxCandidates}

(* type(function_call).to_dict(function_call): the name is always there,   *)
(* the message field args only when it is set                              *)
to_dict(function_call) ==
    [k \in (IF function_call.has_args THEN {"name", "args"} ELSE {"name"}) |->
        IF k = "name" THEN function_call.name ELSE function_call.args]

(* A mutation of the decoding: a missing key defaults to an empty list.    *)
decode_default_empty(resp) ==
    IF Len(resp.candidates) = 0 THEN Raised("IndexError")
    ELSE IF Len(resp.candidates[1].parts) = 0 THEN Raised("IndexError")
    ELSE IF "args" \notin DOMAIN to_dict(resp.candidates[1].parts[1].function_call)
         THEN Returned(<<>>)
    ELSE IF "events" \notin
              DOMAIN to_dict(resp.candidates[1].parts[1].function_call)["args"]
         THEN Returned(<<>>)
    ELSE Returned(to_dict(resp.candidates[1].parts[1].function_call)["args"]["events"])

(* response.candidates[0].content.parts[0].function_call, then             *)
(* to_dict(function_call)["args"]["events"]: list indexing raises          *)
(* IndexError, a missing dictionary key raises KeyError                    *)
decode(resp) ==
    IF Len(resp.candidates) = 0 THEN Raised("IndexError")
    ELSE IF Len(resp.candidates[1].parts) = 0 THEN Raised("IndexError")
    ELSE IF "args" \notin DOMAIN to_dict(resp.candidates[1].parts[1].function_call)
         THEN Raised("KeyError")
    ELSE IF "events" \notin
              DOMAIN to_dict(resp.candidates[1].parts[1].function_call)["args"]
         THEN Raised("KeyError")
    ELSE Returned(to_dict(resp.candidates[1].parts[1].function_call)["args"]["events"])

----------------------------------------------------------------------------
(* src/submission.py : main                                                *)

(* document = document_ai(input_file_path) returned the record text        *)
OcrStageOk ==
    /\ pc = "main_start"
    /\ pc' = "extract"
    /\ UNCHANGED <<mainVars, pdfVars, parseVars>>

(* document_ai(input_file_path) raised                                     *)
OcrStageRaises ==
    /\ pc = "main_start"
    /\ error' = "OcrError"
    /\ pc' = "main_done"
    /\ UNCHANGED <<response, llm_calls, parsed_info, file, pdfVars, parseVars>>

(* document_parser(document) -> generate_content: the prompt is formatted  *)
(* and self.model.generate_content is called with function calling ANY     *)
CallGenerateContent ==
    /\ pc = "extract"
    /\ llm_calls' = Append(llm_calls, "ANY")
    /\ pc' = "llm_await"
    /\ UNCHANGED <<response, parsed_info, file, error, pdfVars, parseVars>>

(* self.model.generate_content raised: the exception leaves __call__ and   *)
(* main                                                                    *)
GenerateContentRaises ==
    /\ pc = "llm_await"
    /\ parsed_info' = Raised("BackendError")
    /\ error' = "BackendError"
    /\ pc' = "main_done"
    /\ UNCHANGED <<response, llm_calls, file, pdfVars, parseVars>>

(* A mutation: a response that does not decode makes the extractor call    *)
(* the backend again.                                                      *)
decode_raises_retry(exc) ==
    /\ parsed_info' = NotFinished
    /\ pc' = "extract"
    /\ UNCHANGED error

(* the decoding raised: nothing catches it in __call__ or in main          *)
decode_raises(exc) ==
    /\ parsed_info' = Raised(exc)
    /\ error' = exc
    /\ pc' = "main_done"

(* the response arrived and __call__ returned the events list              *)
ExtractorReturns ==
    /\ pc = "llm_await"
    /\ \E resp \in Responses :
          /\ decode(resp).kind = "returned"
          /\ response' = resp
          /\ parsed_info' = decode(resp)
    /\ pc' = "open"
    /\ UNCHANGED <<llm_calls, file, error, pdfVars, parseVars>>

(* the response arrived and its decoding raised                            *)
ExtractorDecodeRaises ==
    /\ pc = "llm_await"
    /\ \E resp \in Responses :
          /\ decode(resp).kind = "raised"
          /\ response' = resp
          /\ decode_raises(decode(resp).exc)
    /\ UNCHANGED <<llm_calls, file, pdfVars, parseVars>>

(* open(output_file_path, "w") creates (or truncates) the file             *)
OpenOutput ==
    /\ pc = "open"
    /\ file' = "empty"
    /\ pc' = "dump"
    /\ UNCHANGED <<response, llm_calls, parsed_info, error, pdfVars, parseVars>>

(* open(output_file_path, "w") raised (no such directory, no permission)   *)
OpenOutputRaises ==
    /\ pc = "open"
    /\ error' = "OSError"
    /\ pc' = "main_done"
    /\ UNCHANGED <<response, llm_calls, parsed_info, file, pdfVars, parseVars>>

(* json.dump wrote the whole list and the with block closed the file       *)
JsonDump ==
    /\ pc = "dump"
    /\ file' = "complete"
    /\ pc' = "main_done"
    /\ UNCHANGED <<response, llm_calls, parsed_info, error, pdfVars, parseVars>>

(* json.dump or the closing flush raised (write error): the with block     *)
(* closes the file, which keeps what had been written                      *)
JsonDumpRaises ==
    /\ pc = "dump"
    /\ file' \in {"empty", "partial"}
    /\ error' = "OSError"
    /\ pc' = "main_done"
    /\ UNCHANGED <<response, llm_calls, parsed_info, pdfVars, parseVars>>

MainInit ==
    /\ pc = "main_start"
    /\ IdleMain
    /\ IdlePdf
    /\ IdleParse

MainNext ==
    \/ OcrStageOk
    \/ OcrStageRaises
    \/ CallGenerateContent
    \/ GenerateContentRaises
    \/ ExtractorReturns
    \/ ExtractorDecodeRaises
    \/ OpenOutput
    \/ OpenOutputRaises
    \/ JsonDump
    \/ JsonDumpRaises

MainSpec == MainInit /\ [][MainNext]_vars

----------------------------------------------------------------------------
(* Properties of the batching loop and of the assembled document           *)

WindowLen(w) == w[2] - w[1]
CeilDiv(a, b) == (a + b - 1) \div b
IsPrefix(s, t) == Len(s) <= Len(t) /\ SubSeq(t, 1, Len(s)) = s
DocumentReturned == pc = "pd_done" /\ result.kind = "returned"

(* C1: for total_pages > 0 and ceiling > 0 the windows handed to           *)
(* process_batch start at 0, are contiguous and non-overlapping, lie in    *)
(* [0, total_pages), have length at most ceiling, and once the loop has    *)
(* run to its end they cover exactly [0, total_pages).                     *)
C1_WindowsPartition ==
    (total_pages > 0 /\ ceiling > 0) =>
        /\ \A k \in 1..Len(windows) :
              /\ 0 <= windows[k][1]
              /\ windows[k][1] < windows[k][2]
              /\ windows[k][2] <= total_pages
              /\ WindowLen(windows[k]) <= ceiling
        /\ Len(windows) > 0 => windows[1][1] = 0
        /\ \A k \in 1..(Len(windows) - 1) : windows[k + 1][1] = windows[k][2]
        /\ DocumentReturned =>
              (Len(windows) > 0 /\ windows[Len(windows)][2] = total_pages)

C1_Witness ==
    /\ DocumentReturned
    /\ ceiling = MAX_PAGES_PER_REQUEST
    /\ Len(windows) = 3
    /\ WindowLen(windows[3]) < ceiling

(* C9: every window but the last has length exactly ceiling, the last has  *)
(* length total_pages mod ceiling, or ceiling when that is 0, and a        *)
(* completed loop has issued ceil(total_pages / ceiling) windows.          *)
C9_WindowLengths ==
    (total_pages > 0 /\ ceiling > 0) =>
        /\ \A k \in 1..Len(windows) :
              IF windows[k][2] < total_pages
              THEN WindowLen(windows[k]) = ceiling
              ELSE WindowLen(windows[k]) =
                       (IF total_pages % ceiling = 0 THEN ceiling
                        ELSE total_pages % ceiling)
        /\ Len(windows) <= CeilDiv(total_pages, ceiling)
        /\ DocumentReturned => Len(windows) = CeilDiv(total_pages, ceiling)

C9_Witness ==
    /\ DocumentReturned
    /\ ceiling = MAX_PAGES_PER_REQUEST
    /\ total_pages = 2 * ceiling
    /\ windows = <<<<0, ceiling>>, <<ceiling, 2 * ceiling>>>>

(* C2: in the returned ParsedDocument pages[i] is the page of original PDF *)
(* page i, for every i in [0, N), across batch boundaries.                 *)
C2_PageOrder ==
    DocumentReturned =>
        /\ Len(result.value.pages) = pdf_pages
        /\ \A i \in 0..(pdf_pages - 1) : result.value.pages[i + 1].src = i

C2_Witness ==
    /\ DocumentReturned
    /\ Len(windows) >= 2
    /\ Len(result.value.pages) > ceiling

(* C5: process_document on a PDF with total_pages <= 0 fails with          *)
(* InvalidInput and returns no document.                                   *)
C5_ZeroPagesRejected ==
    (pc = "pd_done" /\ total_pages <= 0) => result = Raised("InvalidInput")

AllWindowsSucceeded ==
    /\ Len(ocr_log) = Len(windows)
    /\ \A k \in 1..Len(ocr_log) : ocr_log[k] = "ok"
    /\ IF total_pages > 0
       THEN Len(windows) > 0 /\ windows[Len(windows)][2] = total_pages
       ELSE Len(windows) = 0

SomeWindowFailed == \E k \in 1..Len(ocr_log) : ocr_log[k] # "ok"

(* C6: a ParsedDocument is returned only when process_batch succeeded for  *)
(* every window; a failing window ends process_document with that          *)
(* exception, and the pages accumulated so far are never reordered.        *)
C6_AllOrNothing ==
    [][/\ IsPrefix(parsed_pages, parsed_pages')
       /\ result'.kind = "returned" => AllWindowsSucceeded'
       /\ SomeWindowFailed' =>
              /\ pc' = "pd_done"
              /\ result' = Raised(ocr_log'[Len(ocr_log')])]_vars

C6_Witness ==
    /\ pc = "pd_done"
    /\ result.kind = "raised"
    /\ Len(ocr_log) >= 2
    /\ ocr_log[1] = "ok"

----------------------------------------------------------------------------
(* Properties of the block text mapping                                    *)

InBounds(text, seg) ==
    /\ 0 <= seg.start_index /\ seg.start_index <= Len(text)
    /\ 0 <= seg.end_index /\ seg.end_index <= Len(text)

(* the characters of text at the offsets start <= i < end                  *)
ExactSubstring(text, start, end) == [i \in 1..(end - start) |-> text[start + i]]

Parsed == pc = "parsed"
InputBlocks == document.pages[1].blocks

(* C10: a Block made from an anchor whose offsets lie within the returned  *)
(* text has exactly the text between the declared start and end offsets.   *)
C10_ExactSubstring ==
    (Parsed /\ parse_result.kind = "returned") =>
        \A k \in 1..Len(InputBlocks) :
            InBounds(document.text, InputBlocks[k].text_segments[1]) =>
                parse_result.value[1].blocks[k].text =
                    ExactSubstring(document.text,
                                   InputBlocks[k].text_segments[1].start_index,
                                   InputBlocks[k].text_segments[1].end_index)

C10_Witness ==
    /\ Parsed
    /\ parse_result.kind = "returned"
    /\ \E k \in 1..Len(InputBlocks) :
          /\ InBounds(document.text, InputBlocks[k].text_segments[1])
          /\ InputBlocks[k].text_segments[1].start_index > 0
          /\ InputBlocks[k].text_segments[1].end_index
                 > InputBlocks[k].text_segments[1].start_index
          /\ parse_result.value[1].blocks[k].text = <<"b">>

AnchorOutOfBounds ==
    \E k \in 1..Len(InputBlocks) :
        /\ Len(InputBlocks[k].text_segments) > 0
        /\ ~InBounds(document.text, InputBlocks[k].text_segments[1])

(* C7: mapping a block whose anchor has an offset outside the returned     *)
(* text fails with MalformedResponse.                                      *)
C7_OutOfBoundsRejected ==
    (Parsed /\ AnchorOutOfBounds) => parse_result = Raised("MalformedResponse")

----------------------------------------------------------------------------
(* Properties of the extractor and of main                                 *)

NoCandidates(resp) == Len(resp.candidates) = 0
NoFunctionCall(resp) ==
    /\ Len(resp.candidates) > 0
    /\ \/ Len(resp.candidates[1].parts) = 0
       \/ resp.candidates[1].parts[1].kind = "text"
MissingEvents(resp) ==
    /\ Len(resp.candidates) > 0
    /\ Len(resp.candidates[1].parts) > 0
    /\ resp.candidates[1].parts[1].kind = "function_call"
    /\ \/ ~resp.candidates[1].parts[1].function_call.has_args
       \/ "events" \notin DOMAIN resp.candidates[1].parts[1].function_call.args
ContractViolated(resp) ==
    resp.received /\ (NoCandidates(resp) \/ NoFunctionCall(resp) \/ MissingEvents(resp))

C8_SingleForcedCall ==
    /\ Len(llm_calls) <= 1
    /\ \A k \in 1..Len(llm_calls) : llm_calls[k] = "ANY"
    /\ (response.received \/ parsed_info.kind # "none") => Len(llm_calls) = 1
    /\ pc \in {"open", "dump", "main_done"} /\ error \notin {"none", "OcrError"}
           => Len(llm_calls) = 1

C8_Witness ==
    /\ pc = "main_done"
    /\ ContractViolated(response)
    /\ parsed_info.kind = "raised"
    /\ llm_calls = <<"ANY">>

(* C4: when a stage of main fails, the error reaches the caller and no     *)
(* file exists at the output path; a file exists only after a run in       *)
(* which every stage succeeded.                                            *)
C4_NoPartialOutput ==
    (pc = "main_done" /\ error # "none") => file = "absent"

====
